---- MODULE Spec2Model ----
(***************************************************************************)
(* Model of the backup service (main.go): the process start-up, the        *)
(* start-up backup run, the cron-scheduled backup runs, the local staging  *)
(* directory and the remote object store.                                  *)
(*                                                                         *)
(* Time is the wall clock in whole seconds as time.Now() returns it; it    *)
(* never runs backwards in the model.  A day is DayLen clock ticks long    *)
(* and the cron entry "0 2 * * *" matches the tick FireAt of every day.    *)
(***************************************************************************)
EXTENDS Integers, Sequences, FiniteSets, TLC

(* ------------------------------ bounds -------------------------------- *)

\* number of scheduled firings the model follows
MaxScheduled == 2
\* last clock value
MaxClock == 3
\* clock ticks in one day
DayLen == 2
\* at most this many keys come back from one ListObjectsV2 call
MaxKeys == 2
\* at most this many file-system or store calls of the jobs fail in one behaviour
MaxFaults == 1
\* the database file is at most this many bytes long
MaxLen == 3

(* ----------------------------- constants ------------------------------ *)

\* tick of the day the cron entry "0 2 * * *" matches
FireAt == 1
\* the run main starts itself; runs 1, 2, ... are the ones cron starts
StartupRun == 0
RunIds == 0..MaxScheduled

\* the texts RETENTION_DAYS may hold: unset, not a number, and three numbers
RetentionTexts == {<<>>, <<"x">>, <<"-", "1">>, <<"0">>, <<"1">>}

\* the value of an environment variable that is set and needs no closer look
SomeValue == <<"v">>

\* a HOST_DB_PATH like the README's ./path/to/your/database.db
HostDBPath == <<".", "/", "d", "/", "a", ".", "d", "b">>

\* an environment that has every required variable
FullEnv ==
    [R2_ACCESS_KEY_ID |-> SomeValue, R2_SECRET_ACCESS_KEY |-> SomeValue,
     R2_ACCOUNT_ID |-> SomeValue, R2_BUCKET |-> SomeValue, DB_PATH |-> SomeValue,
     HOST_DB_PATH |-> HostDBPath, BACKUP_DIR |-> <<>>, RETENTION_DAYS |-> <<>>]

\* the environments the process is started in: every retention text with all
\* required variables set, and one required variable unset
EnvChoices ==
    {[FullEnv EXCEPT !.RETENTION_DAYS = t] : t \in RetentionTexts}
        \cup {[FullEnv EXCEPT !.HOST_DB_PATH = <<>>], [FullEnv EXCEPT !.R2_BUCKET = <<>>]}

\* the buckets the service may find: the last-modified times of the backups
\* that earlier instances of the service left there
OldStores == {{}, {-3, -2}, {-4, -3, -2}}

VARIABLES env, db, mainPc, cfg, clock, cron, runs, files, store, faults

vars == <<env, db, mainPc, cfg, clock, cron, runs, files, store, faults>>

(* ------------------------------ loadConfig ---------------------------- *)

\* RetentionDays: 30, the default
DefaultRetentionDays == 30

\* cfg.BackupDir = "/backups", the default
DefaultBackupDir == <<"/", "b">>

Digits == {"0", "1", "2", "3", "4", "5", "6", "7", "8", "9"}

DigitValue(c) ==
    CASE c = "0" -> 0 [] c = "1" -> 1 [] c = "2" -> 2 [] c = "3" -> 3 [] c = "4" -> 4
      [] c = "5" -> 5 [] c = "6" -> 6 [] c = "7" -> 7 [] c = "8" -> 8 [] OTHER -> 9

\* the decimal number scanned so far, going on at text[i] up to the first
\* character that is not a digit
RECURSIVE ScanDigits(_, _, _)
ScanDigits(text, i, acc) ==
    IF i > Len(text) \/ text[i] \notin Digits THEN [value |-> acc, next |-> i]
    ELSE ScanDigits(text, i + 1, 10 * acc + DigitValue(text[i]))

\* fmt.Sscanf(text, "%d", &n): an optional sign and the digits that follow;
\* an error when there is no digit, and text after the digits is not read
Sscanf(text) ==
    LET signed == Len(text) >= 1 /\ text[1] \in {"+", "-"}
        from == IF signed THEN 2 ELSE 1
        scan == ScanDigits(text, from, 0)
    IN IF scan.next = from THEN [err |-> TRUE, value |-> 0]
       ELSE [err |-> FALSE,
             value |-> IF signed /\ text[1] = "-" THEN 0 - scan.value ELSE scan.value]

\* the configuration before loadConfig returned one
NilConfig ==
    [R2AccessKeyID |-> <<>>, R2SecretAccessKey |-> <<>>, R2AccountID |-> <<>>,
     R2Bucket |-> <<>>, DBPath |-> <<>>, HostDBPath |-> <<>>, BackupDir |-> <<>>,
     RetentionDays |-> 0]

\* mutant of Required: HOST_DB_PATH is not among the required variables
RequiredButHostDBPath ==
    {"R2AccessKeyID", "R2SecretAccessKey", "R2AccountID", "R2Bucket", "DBPath"}

\* the fields of the map of required values
Required ==
    {"R2AccessKeyID", "R2SecretAccessKey", "R2AccountID", "R2Bucket", "DBPath",
     "HostDBPath"}

\* loadConfig: the configuration read from the environment, or an error
loadConfig(e) ==
    LET scan == IF e.RETENTION_DAYS # <<>> THEN Sscanf(e.RETENTION_DAYS)
                ELSE [err |-> FALSE, value |-> DefaultRetentionDays]
        read == [R2AccessKeyID |-> e.R2_ACCESS_KEY_ID,
                 R2SecretAccessKey |-> e.R2_SECRET_ACCESS_KEY,
                 R2AccountID |-> e.R2_ACCOUNT_ID,
                 R2Bucket |-> e.R2_BUCKET,
                 DBPath |-> e.DB_PATH,
                 HostDBPath |-> e.HOST_DB_PATH,
                 BackupDir |-> IF e.BACKUP_DIR = <<>> THEN DefaultBackupDir
                               ELSE e.BACKUP_DIR,
                 RetentionDays |-> scan.value]
    IN IF scan.err \/ \E name \in Required : read[name] = <<>>
       THEN [err |-> TRUE, cfg |-> NilConfig]
       ELSE [err |-> FALSE, cfg |-> read]

(* ------------------------- names, paths, keys ------------------------- *)

\* mutant of Timestamp: the format "20060102", the date alone
TimestampDateOnly(now) == [date |-> now \div DayLen, tod |-> 0]

\* mutant of Timestamp: the format "150405", the time of day alone
TimestampTimeOnly(now) == [date |-> 0, tod |-> now % DayLen]

\* time.Now().Format("20060102_150405"): the date and the time of day
Timestamp(now) == [date |-> now \div DayLen, tod |-> now % DayLen]

\* the path without its trailing slashes
RECURSIVE StripSlashes(_)
StripSlashes(path) ==
    IF Len(path) > 0 /\ path[Len(path)] = "/"
    THEN StripSlashes(SubSeq(path, 1, Len(path) - 1))
    ELSE path

\* the index of the last slash of path[1..i], 0 when there is none
RECURSIVE LastSlash(_, _)
LastSlash(path, i) ==
    IF i = 0 \/ path[i] = "/" THEN i ELSE LastSlash(path, i - 1)

\* filepath.Base: the last element of the path; "." for the empty path and
\* "/" for a path of slashes only
Base(path) ==
    IF path = <<>> THEN <<".">>
    ELSE LET stripped == StripSlashes(path)
             last == SubSeq(stripped, LastSlash(stripped, Len(stripped)) + 1,
                            Len(stripped))
         IN IF last = <<>> THEN <<"/">> ELSE last

\* mutant of Ext: the suffix from the first dot of the last element
RECURSIVE ExtFromFirstDot(_)
ExtFromFirstDot(path) ==
    LET from == LastSlash(path, Len(path)) + 1
        dots == {i \in from..Len(path) : path[i] = "."}
    IN IF dots = {} THEN <<>>
       ELSE SubSeq(path, CHOOSE i \in dots : \A j \in dots : i <= j, Len(path))

\* the loop of filepath.Ext: from index i down to the last element's start
RECURSIVE ExtFrom(_, _)
ExtFrom(path, i) ==
    IF i = 0 \/ path[i] = "/" THEN <<>>
    ELSE IF path[i] = "." THEN SubSeq(path, i, Len(path))
    ELSE ExtFrom(path, i - 1)

\* filepath.Ext: the suffix beginning at the final dot of the last element
Ext(path) == ExtFrom(path, Len(path))

\* strings.TrimSuffix
TrimSuffix(str, suffix) ==
    IF /\ Len(suffix) <= Len(str)
       /\ SubSeq(str, Len(str) - Len(suffix) + 1, Len(str)) = suffix
    THEN SubSeq(str, 1, Len(str) - Len(suffix))
    ELSE str

\* dbName: filepath.Base(cfg.HostDBPath) with its extension trimmed
DbName(hostDBPath) == TrimSuffix(Base(hostDBPath), Ext(Base(hostDBPath)))

\* filepath.Join(cfg.BackupDir, fmt.Sprintf("%s_backup_%s.sql", dbName, timestamp))
BackupFile(backupDir, dbName, timestamp) ==
    [dir |-> StripSlashes(backupDir),
     file |-> [db |-> dbName, mark |-> "_backup_", stamp |-> timestamp,
               ext |-> <<".sql">>]]

\* backupFile + ".gz"
CompressedFile(backupFile) == [backupFile EXCEPT !.file.ext = Append(@, ".gz")]

\* the prefix uploadToR2 puts before the file's base name
UploadPrefix == "backups/"

\* filepath.Base of a joined path: what follows its last slash
PathBase(filePath) ==
    [filePath.file EXCEPT !.db = SubSeq(@, LastSlash(@, Len(@)) + 1, Len(@))]

\* fmt.Sprintf("backups/%s", filepath.Base(filePath))
UploadKey(filePath) == [prefix |-> UploadPrefix, base |-> PathBase(filePath)]

\* mutant of ListPrefix: the list call is given no prefix
ListEverything == ""

\* the Prefix of the ListObjectsV2Input
ListPrefix == "backups/"

\* the store's prefix filter: the key starts with the prefix
HasPrefix(key, prefix) == prefix = "" \/ key.prefix = prefix

\* mutant of Before: !obj.LastModified.After(cutoff)
NotAfter(t, cutoff) == t <= cutoff

\* obj.LastModified.Before(cutoff)
Before(t, cutoff) == t < cutoff

\* time.Now().AddDate(0, 0, -cfg.RetentionDays)
Cutoff(now, retentionDays) == now - retentionDays * DayLen

(* ---------------------------- file contents --------------------------- *)

\* the values of a byte
Bytes == {0, 1}

RECURSIVE SeqsUpTo(_)
SeqsUpTo(n) ==
    IF n = 0 THEN {<<>>}
    ELSE SeqsUpTo(n - 1)
           \cup {Append(c, b) : c \in {d \in SeqsUpTo(n - 1) : Len(d) = n - 1}, b \in Bytes}

\* the contents the database file may have
Contents == SeqsUpTo(MaxLen)

\* the database file of the start of the service: three bytes
DBContent == <<1, 1, 0>>

\* what a failed io.Copy leaves in its destination: a part of the source
CopiedBeforeFailure(content) == SubSeq(content, 1, Len(content) \div 2)

\* the first byte of a gzip stream
GzipMagic == 31

\* the number of bytes at the head of content that equal its first byte
RECURSIVE RunLength(_)
RunLength(content) ==
    IF Len(content) >= 2 /\ content[2] = content[1]
    THEN 1 + RunLength(Tail(content))
    ELSE 1

\* the compressed blocks: each run of equal bytes as its length and the byte
RECURSIVE Deflate(_)
Deflate(content) ==
    IF content = <<>> THEN <<>>
    ELSE <<RunLength(content), content[1]>>
           \o Deflate(SubSeq(content, RunLength(content) + 1, Len(content)))

\* the checksum of the trailer
RECURSIVE Crc(_)
Crc(content) ==
    IF content = <<>> THEN 0
    ELSE (2 * Crc(SubSeq(content, 1, Len(content) - 1)) + content[Len(content)] + 1) % 7

\* what gzip.NewWriter, io.Copy and gw.Close() put into the destination: the
\* header, the blocks, the end of the blocks and the trailer (checksum, size)
Gzip(content) ==
    <<GzipMagic>> \o Deflate(content) \o <<0>> \o <<Crc(content), Len(content)>>

\* the stream when gw.Close() or dst.Close() failed: the end of the blocks
\* and the trailer did not reach the file
GzipNotClosed(content) == <<GzipMagic>> \o Deflate(content)

\* the stream when io.Copy failed: the header and a part of the blocks
GzipBeforeFailure(content) == <<GzipMagic>> \o Deflate(CopiedBeforeFailure(content))

(* ------------------------------ the store ----------------------------- *)

\* an object an earlier run of the service, started in the same environment,
\* uploaded at time t
OldObject(e, t) ==
    [key |-> UploadKey(CompressedFile(
                 BackupFile(loadConfig(e).cfg.BackupDir,
                            DbName(loadConfig(e).cfg.HostDBPath), Timestamp(t)))),
     lastModified |-> t, body |-> Gzip(<<0>>)]

\* an object of the same bucket that is not a backup
ForeignObject ==
    [key |-> [prefix |-> "other/",
              base |-> PathBase(BackupFile(<<>>, <<"n">>, Timestamp(-4)))],
     lastModified |-> -4, body |-> <<1>>]

\* the store lists keys in ascending order: here by date, then time of day
KeyLess(k1, k2) ==
    \/ k1.base.stamp.date < k2.base.stamp.date
    \/ /\ k1.base.stamp.date = k2.base.stamp.date
       /\ k1.base.stamp.tod < k2.base.stamp.tod

RECURSIVE SortByKey(_)
SortByKey(objs) ==
    IF objs = {} THEN <<>>
    ELSE LET first == CHOOSE o \in objs : \A p \in objs : ~KeyLess(p.key, o.key)
         IN <<first>> \o SortByKey(objs \ {first})

Take(s, n) == IF Len(s) <= n THEN s ELSE SubSeq(s, 1, n)

\* client.ListObjectsV2 with a prefix: one page of at most MaxKeys entries
ListObjectsV2(st, prefix) ==
    LET all == SortByKey({o \in st : HasPrefix(o.key, prefix)})
    IN [i \in 1..Len(Take(all, MaxKeys)) |->
           [key |-> all[i].key, lastModified |-> all[i].lastModified]]

\* client.PutObject: the object replaces any object stored under the key
PutObject(st, key, now, content) ==
    {o \in st : o.key # key}
        \cup {[key |-> key, lastModified |-> now, body |-> content]}

\* client.DeleteObject
DeleteObject(st, key) == {o \in st : o.key # key}

(* --------------------------- the local files -------------------------- *)

\* os.Create and the writes that follow: the file replaces one of the same path
WriteFile(fs, path, content) ==
    {f \in fs : f.path # path} \cup {[path |-> path, content |-> content]}

\* os.Remove
RemoveFile(fs, path) == {f \in fs : f.path # path}

Exists(fs, path) == \E f \in fs : f.path = path

ContentOf(fs, path) == (CHOOSE f \in fs : f.path = path).content

(* ------------------------------- Init --------------------------------- *)

NoStamp == Timestamp(-9)

NoFile == BackupFile(<<>>, <<>>, NoStamp)

NewRun ==
    [pc |-> "notStarted", began |-> -9, stamp |-> NoStamp,
     backupFile |-> NoFile, compressedFile |-> NoFile, calls |-> <<>>, errs |-> <<>>,
     results |-> <<>>,
     outcome |-> "none", warning |-> FALSE, cutoff |-> 0, listed |-> FALSE,
     listing |-> <<>>, present |-> {}, idx |-> 0, deletes |-> <<>>, uploaded |-> {}]

Init ==
    /\ env \in EnvChoices
    /\ db = DBContent
    /\ mainPc = "loadConfig"
    /\ cfg = NilConfig
    /\ clock = 0
    /\ cron = [registered |-> FALSE, running |-> FALSE, addFuncErr |-> FALSE,
               startedAt |-> 0, lastFired |-> -1, fired |-> 0]
    /\ runs = [r \in RunIds |-> NewRun]
    /\ files = {}
    /\ faults = MaxFaults
    /\ \E old \in OldStores : store = {OldObject(env, t) : t \in old} \cup {ForeignObject}

(* ------------------------- the two job bodies ------------------------- *)

\* mutant of runBackup: the return after a failed compressFile is missing
runBackupUploadsAnyway(stage, err) ==
    CASE stage = "createBackup" ->
           IF err THEN [pc |-> "returned", outcome |-> "Backup failed", warning |-> FALSE]
           ELSE [pc |-> "compressFile", outcome |-> "none", warning |-> FALSE]
      [] stage = "compressFile" ->
           [pc |-> "uploadToR2", outcome |-> "none", warning |-> FALSE]
      [] stage = "uploadToR2" ->
           IF err THEN [pc |-> "returned", outcome |-> "Upload failed", warning |-> FALSE]
           ELSE [pc |-> "cleanupOldBackups", outcome |-> "none", warning |-> FALSE]
      [] stage = "cleanupOldBackups" ->
           [pc |-> "osRemove", outcome |-> "none", warning |-> err]
      [] OTHER ->
           [pc |-> "returned", outcome |-> "Backup completed successfully", warning |-> FALSE]

\* mutant of runBackup: an error of cleanupOldBackups ends the job as a failure
runBackupFailsOnCleanup(stage, err) ==
    CASE stage = "createBackup" ->
           IF err THEN [pc |-> "returned", outcome |-> "Backup failed", warning |-> FALSE]
           ELSE [pc |-> "compressFile", outcome |-> "none", warning |-> FALSE]
      [] stage = "compressFile" ->
           IF err THEN [pc |-> "returned", outcome |-> "Compression failed", warning |-> FALSE]
           ELSE [pc |-> "uploadToR2", outcome |-> "none", warning |-> FALSE]
      [] stage = "uploadToR2" ->
           IF err THEN [pc |-> "returned", outcome |-> "Upload failed", warning |-> FALSE]
           ELSE [pc |-> "cleanupOldBackups", outcome |-> "none", warning |-> FALSE]
      [] stage = "cleanupOldBackups" ->
           IF err THEN [pc |-> "returned", outcome |-> "Cleanup failed", warning |-> TRUE]
           ELSE [pc |-> "osRemove", outcome |-> "none", warning |-> FALSE]
      [] OTHER ->
           [pc |-> "returned", outcome |-> "Backup completed successfully", warning |-> FALSE]

\* runBackup: where the start-up job goes after a stage returned err or nil
runBackup(stage, err) ==
    CASE stage = "createBackup" ->
           IF err THEN [pc |-> "returned", outcome |-> "Backup failed", warning |-> FALSE]
           ELSE [pc |-> "compressFile", outcome |-> "none", warning |-> FALSE]
      [] stage = "compressFile" ->
           IF err THEN [pc |-> "returned", outcome |-> "Compression failed", warning |-> FALSE]
           ELSE [pc |-> "uploadToR2", outcome |-> "none", warning |-> FALSE]
      [] stage = "uploadToR2" ->
           IF err THEN [pc |-> "returned", outcome |-> "Upload failed", warning |-> FALSE]
           ELSE [pc |-> "cleanupOldBackups", outcome |-> "none", warning |-> FALSE]
      [] stage = "cleanupOldBackups" ->
           [pc |-> "osRemove", outcome |-> "none", warning |-> err]
      [] OTHER ->
           [pc |-> "returned", outcome |-> "Backup completed successfully", warning |-> FALSE]

\* mutant of scheduledJob: a failed stage is tried again instead of ending the run
scheduledJobRetries(stage, err) ==
    CASE stage = "createBackup" ->
           IF err THEN [pc |-> "createBackup", outcome |-> "none", warning |-> FALSE]
           ELSE [pc |-> "compressFile", outcome |-> "none", warning |-> FALSE]
      [] stage = "compressFile" ->
           IF err THEN [pc |-> "compressFile", outcome |-> "none", warning |-> FALSE]
           ELSE [pc |-> "uploadToR2", outcome |-> "none", warning |-> FALSE]
      [] stage = "uploadToR2" ->
           IF err THEN [pc |-> "uploadToR2", outcome |-> "none", warning |-> FALSE]
           ELSE [pc |-> "cleanupOldBackups", outcome |-> "none", warning |-> FALSE]
      [] stage = "cleanupOldBackups" ->
           [pc |-> "osRemove", outcome |-> "none", warning |-> err]
      [] OTHER ->
           [pc |-> "returned", outcome |-> "Scheduled backup completed successfully", warning |-> FALSE]

\* mutant of scheduledJob: the scheduled function lacks the prune stage
scheduledJobSkipsPrune(stage, err) ==
    CASE stage = "createBackup" ->
           IF err THEN [pc |-> "returned", outcome |-> "Backup failed", warning |-> FALSE]
           ELSE [pc |-> "compressFile", outcome |-> "none", warning |-> FALSE]
      [] stage = "compressFile" ->
           IF err THEN [pc |-> "returned", outcome |-> "Compression failed", warning |-> FALSE]
           ELSE [pc |-> "uploadToR2", outcome |-> "none", warning |-> FALSE]
      [] stage = "uploadToR2" ->
           IF err THEN [pc |-> "returned", outcome |-> "Upload failed", warning |-> FALSE]
           ELSE [pc |-> "osRemove", outcome |-> "none", warning |-> FALSE]
      [] stage = "cleanupOldBackups" ->
           [pc |-> "osRemove", outcome |-> "none", warning |-> err]
      [] OTHER ->
           [pc |-> "returned", outcome |-> "Scheduled backup completed successfully", warning |-> FALSE]

\* the function scheduleBackup hands to cron: the same after each stage
scheduledJob(stage, err) ==
    CASE stage = "createBackup" ->
           IF err THEN [pc |-> "returned", outcome |-> "Backup failed", warning |-> FALSE]
           ELSE [pc |-> "compressFile", outcome |-> "none", warning |-> FALSE]
      [] stage = "compressFile" ->
           IF err THEN [pc |-> "returned", outcome |-> "Compression failed", warning |-> FALSE]
           ELSE [pc |-> "uploadToR2", outcome |-> "none", warning |-> FALSE]
      [] stage = "uploadToR2" ->
           IF err THEN [pc |-> "returned", outcome |-> "Upload failed", warning |-> FALSE]
           ELSE [pc |-> "cleanupOldBackups", outcome |-> "none", warning |-> FALSE]
      [] stage = "cleanupOldBackups" ->
           [pc |-> "osRemove", outcome |-> "none", warning |-> err]
      [] OTHER ->
           [pc |-> "returned", outcome |-> "Scheduled backup completed successfully", warning |-> FALSE]

JobNext(r, stage, err) ==
    IF r = StartupRun THEN runBackup(stage, err) ELSE scheduledJob(stage, err)

\* a job body begins: the names are derived from cfg and time.Now()
Begin(config, now) ==
    LET dbName == DbName(config.HostDBPath)
        timestamp == Timestamp(now)
        backupFile == BackupFile(config.BackupDir, dbName, timestamp)
    IN [NewRun EXCEPT !.pc = "createBackup", !.began = now, !.stamp = timestamp,
                      !.backupFile = backupFile,
                      !.compressedFile = CompressedFile(backupFile)]

\* a stage was called and returned within one step
Called(run, stage, err, nxt) ==
    [run EXCEPT !.calls = Append(@, stage), !.errs = Append(@, err),
                !.pc = nxt.pc, !.outcome = nxt.outcome,
                !.warning = @ \/ nxt.warning]

(* ------------------------------ the stages ---------------------------- *)

\* the results a call may have: any of them while failures are left to inject
Possible(results) == IF faults > 0 THEN results ELSE {"ok"}

\* faults counts the failures left to inject
Injected(res) == faults' = IF res = "ok" THEN faults ELSE faults - 1

\* the job's record of what a call did
Result(run, res) == [run EXCEPT !.results = Append(@, res)]

\* createBackup: MkdirAll, Open or Create fails (no file), io.Copy fails
\* (a partial file stays), or the database file is copied wholly
CreateBackupResults == {"ok", "noFile", "copyFailed"}

createBackup(r) ==
    /\ runs[r].pc = "createBackup"
    /\ \E res \in Possible(CreateBackupResults) :
         LET backupFile == runs[r].backupFile
         IN /\ Injected(res)
            /\ files' = CASE res = "ok" -> WriteFile(files, backupFile, db)
                          [] res = "copyFailed" ->
                               WriteFile(files, backupFile, CopiedBeforeFailure(db))
                          [] OTHER -> files
            /\ runs' = [runs EXCEPT ![r] =
                          Called(Result(@, res), "createBackup", res # "ok",
                                 JobNext(r, "createBackup", res # "ok"))]
    /\ UNCHANGED <<env, db, mainPc, cfg, clock, cron, store>>

\* compressFile: Open or Create fails (no file), io.Copy fails (error, a
\* partial file stays), or io.Copy succeeds and the deferred gw.Close() and
\* dst.Close() run with their errors dropped: the function returns nil
\* whether or not the stream's trailer reached the file
CompressResults == {"ok", "noFile", "copyFailed", "closeFailed"}

\* what compressFile returns for each result
CompressErr(res) == res \in {"noFile", "copyFailed"}

compressFile(r) ==
    /\ runs[r].pc = "compressFile"
    /\ \E res \in Possible(CompressResults) :
         LET compressedFile == runs[r].compressedFile
             content == ContentOf(files, runs[r].backupFile)
         IN /\ Injected(res)
            /\ files' = CASE res = "ok" -> WriteFile(files, compressedFile, Gzip(content))
                          [] res = "noFile" -> files
                          [] res = "copyFailed" ->
                               WriteFile(files, compressedFile, GzipBeforeFailure(content))
                          [] OTHER ->
                               WriteFile(files, compressedFile, GzipNotClosed(content))
            /\ runs' = [runs EXCEPT ![r] =
                          Called(Result(@, res), "compressFile", CompressErr(res),
                                 JobNext(r, "compressFile", CompressErr(res)))]
    /\ UNCHANGED <<env, db, mainPc, cfg, clock, cron, store>>

\* uploadToR2: os.Open fails, PutObject fails, or the object is stored
UploadResults == {"ok", "openFailed", "putFailed"}

uploadToR2(r) ==
    /\ runs[r].pc = "uploadToR2"
    /\ \E res \in Possible(UploadResults) :
         LET filePath == runs[r].compressedFile
             key == UploadKey(filePath)
             opened == Exists(files, filePath) /\ res # "openFailed"
             stored == opened /\ res = "ok"
         IN /\ Injected(res)
            /\ store' = IF stored
                        THEN PutObject(store, key, clock, ContentOf(files, filePath))
                        ELSE store
            /\ runs' = [runs EXCEPT ![r] =
                          [Called(Result(@, res), "uploadToR2", ~stored,
                                  JobNext(r, "uploadToR2", ~stored))
                             EXCEPT !.uploaded = IF stored THEN {key} ELSE {}]]
    /\ UNCHANGED <<env, db, mainPc, cfg, clock, cron, files>>

(* -------------------------- cleanupOldBackups ------------------------- *)

\* the next entry of result.Contents, from index from on, that the loop deletes
RECURSIVE NextStale(_, _, _)
NextStale(listing, from, cutoff) ==
    IF from > Len(listing) THEN Len(listing) + 1
    ELSE IF Before(listing[from].lastModified, cutoff) THEN from
    ELSE NextStale(listing, from + 1, cutoff)

\* mutant of AfterDelete: a failed delete is returned as the pass's error
AfterDeleteReturnsError(listing, idx, cutoff, failed) ==
    IF failed THEN [idx |-> Len(listing) + 1, err |-> TRUE]
    ELSE [idx |-> NextStale(listing, idx + 1, cutoff), err |-> FALSE]

\* the loop after DeleteObject returned for entry idx: the failure is logged
\* and the loop goes on with the next entry
AfterDelete(listing, idx, cutoff, failed) ==
    [idx |-> NextStale(listing, idx + 1, cutoff), err |-> FALSE]

\* cleanupOldBackups returned err or nil to the job body
PruneReturned(r, run, err) ==
    LET nxt == JobNext(r, "cleanupOldBackups", err)
    IN [run EXCEPT !.errs = Append(@, err), !.pc = nxt.pc,
                   !.outcome = nxt.outcome, !.warning = nxt.warning]

\* the loop stands before entry idx, or is past the last entry and returns
PruneAt(r, run, idx, err) ==
    IF err \/ idx > Len(run.listing)
    THEN PruneReturned(r, [run EXCEPT !.idx = idx], err)
    ELSE [run EXCEPT !.idx = idx, !.pc = "deleteObject"]

ListResults == {"ok", "failed"}

\* cleanupOldBackups up to the return of ListObjectsV2; present records the
\* keys the bucket held under the prefix when the call was made
cleanupOldBackups(r) ==
    /\ runs[r].pc = "cleanupOldBackups"
    /\ \E res \in Possible(ListResults) :
         LET cutoff == Cutoff(clock, cfg.RetentionDays)
             called == [Result(runs[r], res) EXCEPT
                                       !.calls = Append(@, "cleanupOldBackups"),
                                       !.cutoff = cutoff,
                                       !.present = {o.key : o \in {p \in store :
                                                       HasPrefix(p.key, ListPrefix)}}]
             listing == ListObjectsV2(store, ListPrefix)
         IN /\ Injected(res)
            /\ runs' = [runs EXCEPT ![r] =
                 IF res = "failed" THEN PruneReturned(r, called, TRUE)
                 ELSE PruneAt(r, [called EXCEPT !.listed = TRUE, !.listing = listing],
                              NextStale(listing, 1, cutoff), FALSE)]
    /\ UNCHANGED <<env, db, mainPc, cfg, clock, cron, files, store>>

DeleteResults == {"ok", "failed"}

\* one DeleteObject call of the loop and the loop's step to its next one
deleteObject(r) ==
    /\ runs[r].pc = "deleteObject"
    /\ \E res \in Possible(DeleteResults) :
         LET run == Result(runs[r], res)
             obj == run.listing[run.idx]
             after == AfterDelete(run.listing, run.idx, run.cutoff, res = "failed")
             gone == {o \in store : o.key = obj.key}
             done == [run EXCEPT !.deletes =
                        Append(@, [key |-> obj.key, lastModified |-> obj.lastModified,
                                   ok |-> res = "ok",
                                   removed |-> IF res = "ok" THEN gone ELSE {}])]
         IN /\ Injected(res)
            /\ store' = IF res = "ok" THEN DeleteObject(store, obj.key) ELSE store
            /\ runs' = [runs EXCEPT ![r] = PruneAt(r, done, after.idx, after.err)]
    /\ UNCHANGED <<env, db, mainPc, cfg, clock, cron, files>>

(* --------------------------- local clean-up --------------------------- *)

\* os.Remove(backupFile); os.Remove(compressedFile).  The job never reads
\* what os.Remove returns; the files are the job's own and the removal is
\* taken to succeed.
osRemove(r) ==
    /\ runs[r].pc = "osRemove"
    /\ LET backupFile == runs[r].backupFile
           compressedFile == runs[r].compressedFile
       IN files' = RemoveFile(RemoveFile(files, backupFile), compressedFile)
    /\ runs' = [runs EXCEPT ![r] =
                  Called(@, "osRemove", FALSE, JobNext(r, "osRemove", FALSE))]
    /\ UNCHANGED <<env, db, mainPc, cfg, clock, cron, store, faults>>

(* -------------------------------- main -------------------------------- *)

\* loadConfig returns the configuration, or an error and main exits
LoadConfig ==
    /\ mainPc = "loadConfig"
    /\ LET loaded == loadConfig(env)
       IN /\ mainPc' = IF loaded.err THEN "exited" ELSE "createS3Client"
          /\ cfg' = loaded.cfg
    /\ UNCHANGED <<env, db, clock, cron, runs, files, store, faults>>

\* createS3Client returns the client, or an error and main exits
CreateS3Client ==
    /\ mainPc = "createS3Client"
    /\ \E ok \in BOOLEAN : mainPc' = IF ok THEN "initialBackup" ELSE "exited"
    /\ UNCHANGED <<env, db, cfg, clock, cron, runs, files, store, faults>>

\* main calls runBackup(cfg, s3Client)
InitialBackup ==
    /\ mainPc = "initialBackup"
    /\ mainPc' = "runBackup"
    /\ runs' = [runs EXCEPT ![StartupRun] = Begin(cfg, clock)]
    /\ UNCHANGED <<env, db, cfg, clock, cron, files, store, faults>>

\* mutant of InitialBackupReturned: main does not wait (go runBackup(...))
InitialBackupNotAwaited == TRUE

\* main is past its call of runBackup: the call is synchronous
InitialBackupReturned == runs[StartupRun].pc = "returned"

\* scheduleBackup: cron.New, AddFunc("0 2 * * *", job), c.Start(); main then
\* blocks in select {}.  When AddFunc returns an error scheduleBackup returns
\* it before c.Start() and main exits.
ScheduleBackup ==
    /\ mainPc = "runBackup"
    /\ InitialBackupReturned
    /\ \E added \in BOOLEAN :
         IF added
         THEN /\ mainPc' = "idle"
              /\ cron' = [cron EXCEPT !.registered = TRUE, !.running = TRUE,
                                      !.startedAt = clock]
         ELSE /\ mainPc' = "exited"
              /\ cron' = [cron EXCEPT !.addFuncErr = TRUE]
    /\ UNCHANGED <<env, db, cfg, clock, runs, files, store, faults>>

(* -------------------------------- cron -------------------------------- *)

\* the entry "0 2 * * *" matches the time
Matches(now) == now % DayLen = FireAt

\* mutant of FireDue: the entry fires from process start on, started or not
FireDueBeforeStart ==
    /\ Matches(clock)
    /\ clock > cron.lastFired

\* the running cron has an activation due: its next activation is the first
\* matching time after the one it was started at, and after its last one
FireDue ==
    /\ cron.running
    /\ Matches(clock)
    /\ clock > cron.startedAt
    /\ clock > cron.lastFired

\* cron starts the registered function in a goroutine of its own
Fire ==
    /\ FireDue
    /\ cron.fired < MaxScheduled
    /\ cron' = [cron EXCEPT !.lastFired = clock, !.fired = @ + 1]
    /\ runs' = [runs EXCEPT ![cron.fired + 1] = Begin(cfg, clock)]
    /\ UNCHANGED <<env, db, mainPc, cfg, clock, files, store, faults>>

\* a second passes; an activation that is due happens in its second
Tick ==
    /\ clock < MaxClock
    /\ ~FireDue
    /\ clock' = clock + 1
    /\ UNCHANGED <<env, db, mainPc, cfg, cron, runs, files, store, faults>>

(* ----------------------------- specification -------------------------- *)

Step(r) ==
    \/ createBackup(r)
    \/ compressFile(r)
    \/ uploadToR2(r)
    \/ cleanupOldBackups(r)
    \/ deleteObject(r)
    \/ osRemove(r)

Next ==
    \/ LoadConfig
    \/ CreateS3Client
    \/ InitialBackup
    \/ ScheduleBackup
    \/ Fire
    \/ Tick
    \/ \E r \in RunIds : Step(r)

Spec == Init /\ [][Next]_vars

(* ------------------- the service under other file names --------------- *)

\* values of HOST_DB_PATH: a.b.c, d.x/a, /d/.e, d/a.b/ and the usual one
HostDBPaths ==
    {HostDBPath,
     <<"a", ".", "b", ".", "c">>,
     <<"d", ".", "x", "/", "a">>,
     <<"/", "d", "/", ".", "e">>,
     <<"d", "/", "a", ".", "b", "/">>}

\* values of BACKUP_DIR: unset, /s and /s/
BackupDirs == {<<>>, <<"/", "s">>, <<"/", "s", "/">>}

\* the start of the service with a retention of no days, in a bucket of two
\* old backups: each staging directory with the usual host path, and each
\* host path with the staging directory /s/
NameInit ==
    /\ \E h \in HostDBPaths : \E d \in BackupDirs :
         /\ h = HostDBPath \/ d = <<"/", "s", "/">>
         /\ env = [FullEnv EXCEPT !.HOST_DB_PATH = h, !.BACKUP_DIR = d,
                                  !.RETENTION_DAYS = <<"0">>]
    /\ db = DBContent
    /\ mainPc = "loadConfig"
    /\ cfg = NilConfig
    /\ clock = 0
    /\ cron = [registered |-> FALSE, running |-> FALSE, addFuncErr |-> FALSE,
               startedAt |-> 0, lastFired |-> -1, fired |-> 0]
    /\ runs = [r \in RunIds |-> NewRun]
    /\ files = {}
    /\ faults = MaxFaults
    /\ store = {OldObject(env, t) : t \in {-3, -2}} \cup {ForeignObject}

NameSpec == NameInit /\ [][Next]_vars

(* ---------------- the service under other database files -------------- *)

\* the start of the service with a retention of no days, in a bucket of two
\* old backups, with each content of the database file
ContentInit ==
    /\ env = [FullEnv EXCEPT !.RETENTION_DAYS = <<"0">>]
    /\ db \in Contents
    /\ mainPc = "loadConfig"
    /\ cfg = NilConfig
    /\ clock = 0
    /\ cron = [registered |-> FALSE, running |-> FALSE, addFuncErr |-> FALSE,
               startedAt |-> 0, lastFired |-> -1, fired |-> 0]
    /\ runs = [r \in RunIds |-> NewRun]
    /\ files = {}
    /\ faults = MaxFaults
    /\ store = {OldObject(env, t) : t \in {-3, -2}} \cup {ForeignObject}

ContentSpec == ContentInit /\ [][Next]_vars

(* ------------------- the service under more failures ------------------ *)

\* the start of the service with a retention of no days, in a bucket of two
\* old backups, with one more failure to inject: the same call can fail in
\* the start-up run and in a scheduled run
FaultyInit ==
    /\ env = [FullEnv EXCEPT !.RETENTION_DAYS = <<"0">>]
    /\ db = DBContent
    /\ mainPc = "loadConfig"
    /\ cfg = NilConfig
    /\ clock = 0
    /\ cron = [registered |-> FALSE, running |-> FALSE, addFuncErr |-> FALSE,
               startedAt |-> 0, lastFired |-> -1, fired |-> 0]
    /\ runs = [r \in RunIds |-> NewRun]
    /\ files = {}
    /\ faults = MaxFaults + 1
    /\ store = {OldObject(env, t) : t \in {-3, -2}} \cup {ForeignObject}

FaultySpec == FaultyInit /\ [][Next]_vars

(* ============================== properties ============================ *)

Started(r) == runs[r].pc # "notStarted"
Returned(r) == runs[r].pc = "returned"
Invoked(r, stage) == \E i \in 1..Len(runs[r].calls) : runs[r].calls[i] = stage
Succeeded(r) ==
    runs[r].outcome \in {"Backup completed successfully",
                         "Scheduled backup completed successfully"}
StagedOf(r) == runs[r].backupFile
CompressedOf(r) == runs[r].compressedFile
\* the prune pass of run r is over
PruneOver(r) == Invoked(r, "cleanupOldBackups") /\ runs[r].pc \in {"osRemove", "returned"}
ListFailed(r) == Invoked(r, "cleanupOldBackups") /\ ~runs[r].listed
DeleteFailed(r) == \E j \in 1..Len(runs[r].deletes) : ~runs[r].deletes[j].ok
Attempts(r, key) == {j \in 1..Len(runs[r].deletes) : runs[r].deletes[j].key = key}
Stale(r, i) == runs[r].listing[i].lastModified < runs[r].cutoff

\* C1: when a job run has ended, whatever its outcome, neither its staged
\* file nor its compressed file exists in the staging directory.
C1_NoLocalFileAfterRun ==
    \A r \in RunIds :
        Returned(r) => ~Exists(files, StagedOf(r)) /\ ~Exists(files, CompressedOf(r))

StageOrder == <<"createBackup", "compressFile", "uploadToR2", "cleanupOldBackups", "osRemove">>

\* C2: in every run the stages are invoked in the order snapshot, compress,
\* upload, prune, and compress, upload and prune are invoked only after the
\* stage before them returned without error.
C2_StagesInOrderAfterSuccess ==
    \A r \in RunIds :
        LET calls == runs[r].calls
            errs == runs[r].errs
        IN /\ Len(calls) <= Len(StageOrder)
           /\ \A i \in 1..Len(calls) : calls[i] = StageOrder[i]
           /\ \A i \in 2..Len(calls) : i <= 4 => Len(errs) >= i - 1 /\ ~errs[i - 1]

\* a run ended by an upload failure, with prune and clean-up never invoked
C2_Witness ==
    \E r \in RunIds :
        /\ Returned(r)
        /\ runs[r].outcome = "Upload failed"
        /\ runs[r].calls = <<"createBackup", "compressFile", "uploadToR2">>
        /\ runs[r].errs = <<FALSE, FALSE, TRUE>>

\* C3: a run whose prune pass failed (the list call, or a delete) goes on to
\* the local clean-up and ends with the success outcome; only a failed list
\* call raises the clean-up warning.
C3_PruneFailureIsNotJobFailure ==
    \A r \in RunIds :
        (ListFailed(r) \/ DeleteFailed(r)) =>
            /\ runs[r].pc \in {"deleteObject", "osRemove", "returned"}
            /\ runs[r].warning = ListFailed(r)
            /\ Returned(r) =>
                 /\ Succeeded(r)
                 /\ runs[r].calls = StageOrder
                 /\ ~Exists(files, StagedOf(r)) /\ ~Exists(files, CompressedOf(r))

\* a run that ended after its list call failed
C3_Witness ==
    \E r \in RunIds : Returned(r) /\ ListFailed(r) /\ runs[r].warning

\* C4: in a prune pass no key is deleted twice, and when the pass is over a
\* delete was attempted exactly once for every listed object older than the
\* cutoff, failed deletes or not, and the pass returned no error.
C4_EveryStaleObjectAttemptedOnce ==
    \A r \in RunIds :
        /\ \A j \in 1..Len(runs[r].deletes) :
               Cardinality(Attempts(r, runs[r].deletes[j].key)) = 1
        /\ (PruneOver(r) /\ runs[r].listed) =>
              /\ \A i \in 1..Len(runs[r].listing) :
                    Stale(r, i) => Cardinality(Attempts(r, runs[r].listing[i].key)) = 1
              /\ ~runs[r].errs[4]
              /\ ~runs[r].warning

\* a pass that is over in which a delete failed and a later one was attempted
C4_Witness ==
    \E r \in RunIds :
        /\ PruneOver(r)
        /\ \E j \in 1..Len(runs[r].deletes) :
              ~runs[r].deletes[j].ok /\ j < Len(runs[r].deletes)

\* C5: right after a prune pass (of a retention window that is not negative)
\* whose list call and deletes all succeeded, no object under backups/ older
\* than the pass's cutoff is left in the store.
C5_NoStaleObjectAfterPrune ==
    \A r \in RunIds :
        (/\ runs[r].pc = "osRemove" /\ runs[r].listed /\ ~DeleteFailed(r)
         /\ cfg.RetentionDays >= 0) =>
            \A o \in store :
                o.key.prefix = "backups/" => ~(o.lastModified < runs[r].cutoff)

\* C6: every delete a prune pass issues is for an object listed with a
\* last-modified before the cutoff, and removes only such an object.
C6_NoDeleteAtOrAfterCutoff ==
    \A r \in RunIds :
        \A j \in 1..Len(runs[r].deletes) :
            /\ runs[r].deletes[j].lastModified < runs[r].cutoff
            /\ \A o \in runs[r].deletes[j].removed : o.lastModified < runs[r].cutoff

\* a pass that is over, deleted an object, and listed an object modified
\* exactly at the cutoff, which is still stored
C6_Witness ==
    \E r \in RunIds :
        /\ PruneOver(r)
        /\ \E j \in 1..Len(runs[r].deletes) : runs[r].deletes[j].ok
        /\ \E i \in 1..Len(runs[r].listing) :
              /\ runs[r].listing[i].lastModified = runs[r].cutoff
              /\ \E o \in store : /\ o.key = runs[r].listing[i].key
                                  /\ o.lastModified = runs[r].cutoff

\* C7: a prune pass lists only keys under backups/ and deletes only keys of
\* its listing, an upload stores under backups/, and the object outside the
\* prefix stays in the store.
C7_PrefixConfinement ==
    /\ ForeignObject \in store
    /\ \A r \in RunIds :
          /\ \A i \in 1..Len(runs[r].listing) : runs[r].listing[i].key.prefix = "backups/"
          /\ \A j \in 1..Len(runs[r].deletes) :
                /\ runs[r].deletes[j].key.prefix = "backups/"
                /\ \E i \in 1..Len(runs[r].listing) :
                      runs[r].listing[i].key = runs[r].deletes[j].key
          /\ \A k \in runs[r].uploaded : k.prefix = "backups/"

\* a run that uploaded and whose pass, with a cutoff after the foreign
\* object's last-modified, deleted an object
C7_Witness ==
    \E r \in RunIds :
        /\ PruneOver(r)
        /\ runs[r].uploaded # {}
        /\ \E j \in 1..Len(runs[r].deletes) : runs[r].deletes[j].ok
        /\ ForeignObject.lastModified < runs[r].cutoff

RECURSIVE Repeat(_, _)
Repeat(b, count) == IF count = 0 THEN <<>> ELSE <<b>> \o Repeat(b, count - 1)

\* reading the blocks from stream[i] on
RECURSIVE Inflate(_, _, _)
Inflate(stream, i, out) ==
    IF i > Len(stream) THEN [err |-> TRUE, data |-> out, next |-> i]
    ELSE IF stream[i] = 0 THEN [err |-> FALSE, data |-> out, next |-> i + 1]
    ELSE IF i + 1 > Len(stream) THEN [err |-> TRUE, data |-> out, next |-> i]
    ELSE Inflate(stream, i + 2, out \o Repeat(stream[i + 1], stream[i]))

\* gunzip: the content of a stream, or an error when the stream does not
\* begin with the header, ends early, or its trailer does not fit the content
Gunzip(stream) ==
    IF Len(stream) = 0 \/ stream[1] # GzipMagic THEN [err |-> TRUE, data |-> <<>>]
    ELSE LET blocks == Inflate(stream, 2, <<>>)
         IN IF \/ blocks.err
               \/ Len(stream) # blocks.next + 1
               \/ stream[blocks.next] # Crc(blocks.data)
               \/ stream[blocks.next + 1] # Len(blocks.data)
            THEN [err |-> TRUE, data |-> blocks.data]
            ELSE [err |-> FALSE, data |-> blocks.data]

\* C9: every object a run uploaded holds a completely written and finalized
\* compressed stream.
C9_UploadedFileIsFinalized ==
    \A r \in RunIds : \A k \in runs[r].uploaded :
        \A o \in store : o.key = k => ~Gunzip(o.body).err

FailedAt(r, i) ==
    /\ i <= Len(runs[r].errs)
    /\ runs[r].errs[i]
    /\ \A j \in 1..(i - 1) : ~runs[r].errs[j]

Failed(r) == \E i \in 1..3 : FailedAt(r, i)

\* C11: a run that failed at snapshot, compress or upload has ended with that
\* stage as its last call (nothing is tried again) and did not end the
\* process: the trigger is, or is about to be, registered; scheduled runs
\* begin only at firings, one per firing, and the firing that is due a day
\* after a failed run began can start the next run.
C11_FailedRunEndsServiceGoesOn ==
    /\ \A r \in RunIds : \A i \in 1..3 :
          FailedAt(r, i) =>
             /\ Returned(r)
             /\ Len(runs[r].calls) = i
             /\ runs[r].outcome \in {"Backup failed", "Compression failed", "Upload failed"}
             /\ mainPc \in {"runBackup", "idle"} \/ cron.addFuncErr
             /\ r # StartupRun => cron.registered /\ cron.running /\ mainPc = "idle"
             /\ mainPc = "runBackup" => r = StartupRun /\ ENABLED ScheduleBackup
    /\ \A r \in RunIds \ {StartupRun} :
          /\ Started(r) <=> r <= cron.fired
          /\ Started(r) => /\ runs[r].stamp.tod = FireAt
                           /\ \A r2 \in RunIds \ {StartupRun, r} :
                                 Started(r2) => runs[r2].stamp # runs[r].stamp
    /\ ((\E r \in RunIds : Failed(r) /\ runs[r].began = clock - DayLen)
          /\ FireDue /\ cron.fired < MaxScheduled) => ENABLED Fire

\* a scheduled run failed and ended, and the next firing started another run
C11_Witness ==
    \E r \in RunIds \ {StartupRun} : \E r2 \in RunIds :
        /\ Failed(r) /\ Returned(r)
        /\ r2 > r /\ Started(r2)
        /\ cron.registered

\* the environment fails loadConfig's validation: a required variable is
\* empty, or RETENTION_DAYS is set and does not begin with a number
InvalidEnv ==
    \/ \E name \in {"R2_ACCESS_KEY_ID", "R2_SECRET_ACCESS_KEY", "R2_ACCOUNT_ID",
                     "R2_BUCKET", "DB_PATH", "HOST_DB_PATH"} : env[name] = <<>>
    \/ env.RETENTION_DAYS \notin {<<>>, <<"-", "1">>, <<"0">>, <<"1">>}

\* C12: with an environment that fails validation the process never gets
\* past loadConfig: no run, no trigger, nothing written; after a failed
\* registration the process has exited with the trigger neither registered
\* nor running; an exited process takes no step of main, of cron or of a
\* job, and idle is reached only with a valid environment and a registered
\* trigger.
C12_StartupErrorsAreFatal ==
    /\ InvalidEnv =>
          /\ mainPc \in {"loadConfig", "exited"}
          /\ \A r \in RunIds : ~Started(r)
          /\ ~cron.registered /\ ~cron.running /\ cron.fired = 0
          /\ files = {}
    /\ cron.addFuncErr =>
          /\ mainPc = "exited"
          /\ ~cron.registered /\ ~cron.running /\ cron.fired = 0
    /\ mainPc = "exited" =>
          /\ ~ENABLED (LoadConfig \/ CreateS3Client \/ InitialBackup \/ ScheduleBackup)
          /\ ~ENABLED Fire
          /\ \A r \in RunIds : ~ENABLED Step(r)
    /\ mainPc = "idle" => ~InvalidEnv /\ ~cron.addFuncErr /\ cron.registered

\* the process exited on RETENTION_DAYS that is not a number, some time ago
C12_Witness ==
    /\ mainPc = "exited"
    /\ env.RETENTION_DAYS = <<"x">>
    /\ clock = MaxClock

\* the process exited because the registration failed after its start-up run
C12_WitnessRegistration ==
    /\ mainPc = "exited"
    /\ cron.addFuncErr
    /\ Succeeded(StartupRun)

\* the file name of a path: what follows its last slash, slashes at its end
\* set aside
FileNameOf(path) ==
    LET n == CHOOSE k \in 0..Len(path) :
                 /\ \A i \in (k + 1)..Len(path) : path[i] = "/"
                 /\ k > 0 => path[k] # "/"
        slashes == {i \in 1..n : path[i] = "/"}
        start == IF slashes = {} THEN 1
                 ELSE 1 + CHOOSE i \in slashes : \A j \in slashes : j <= i
    IN [i \in 1..(n - start + 1) |-> path[start + i - 1]]

\* a file name without its extension: what stands before its last dot
StripExtension(name) ==
    LET dots == {i \in 1..Len(name) : name[i] = "."}
    IN IF dots = {} THEN name
       ELSE [i \in 1..((CHOOSE d \in dots : \A j \in dots : j <= d) - 1) |-> name[i]]

\* <basename>_backup_<YYYYMMDD_HHMMSS> with the suffixes ext, for the run
\* begun at time began
NameAt(began, ext) ==
    [db |-> StripExtension(FileNameOf(env.HOST_DB_PATH)), mark |-> "_backup_",
     stamp |-> [date |-> began \div DayLen, tod |-> began % DayLen], ext |-> ext]

C14_FirstBackupAtFirstFiring ==
    cron.fired = 0 =>
        /\ \A r \in RunIds : ~Started(r) /\ runs[r].uploaded = {}
        /\ files = {}

\* C15: when a run's snapshot and compress stages have returned without
\* error, decompressing the run's compressed file yields the content of the
\* database file, byte for byte.
C15_RoundTrip ==
    \A r \in RunIds :
        (/\ Len(runs[r].errs) >= 2 /\ ~runs[r].errs[1] /\ ~runs[r].errs[2]
         /\ Exists(files, CompressedOf(r))) =>
            Gunzip(ContentOf(files, CompressedOf(r))) = [err |-> FALSE, data |-> db]

\* the same of the runs whose compressed stream was closed: every stage
\* result but a failed Close
C15_RoundTripOfClosedStreams ==
    \A r \in RunIds :
        (/\ Len(runs[r].errs) >= 2 /\ ~runs[r].errs[1] /\ ~runs[r].errs[2]
         /\ Exists(files, CompressedOf(r))
         /\ ContentOf(files, CompressedOf(r)) # GzipNotClosed(db)) =>
            Gunzip(ContentOf(files, CompressedOf(r))) = [err |-> FALSE, data |-> db]

InProgress(r) == Started(r) /\ ~Returned(r)

LocalPaths(r) == {runs[r].backupFile, runs[r].compressedFile}

C17_ListingIsComplete ==
    \A r \in RunIds :
        runs[r].listed =>
            {runs[r].listing[i].key : i \in 1..Len(runs[r].listing)} = runs[r].present

\* C18: whatever RETENTION_DAYS loadConfig accepted, the prune pass of a run
\* issues no delete for the key the run has uploaded to: when the pass is
\* over the run's object is in the store, unless another run deleted it.
C18_OwnBackupSurvivesPrune ==
    \A r \in RunIds :
        /\ \A j \in 1..Len(runs[r].deletes) : runs[r].deletes[j].key \notin runs[r].uploaded
        /\ PruneOver(r) =>
              \A k \in runs[r].uploaded :
                  \/ \E o \in store : o.key = k
                  \/ \E r2 \in RunIds \ {r} : Attempts(r2, k) # {}

\* C19: while the start-up run is in progress the trigger is neither
\* registered nor started, no firing is possible and no scheduled run has
\* begun; a scheduled run begins only at a matching time after the trigger
\* was started, which is after the start-up run began and returned, so a
\* scheduled time that passed during the start-up run is never made up for.
C19_StartupRunNeverOverlaps ==
    /\ InProgress(StartupRun) =>
          /\ ~cron.registered /\ ~cron.running /\ cron.fired = 0
          /\ ~ENABLED Fire
          /\ \A r \in RunIds \ {StartupRun} : ~Started(r)
    /\ \A r \in RunIds \ {StartupRun} :
          Started(r) =>
              /\ Returned(StartupRun)
              /\ runs[r].began % DayLen = FireAt
              /\ runs[r].began > cron.startedAt
              /\ cron.startedAt >= runs[StartupRun].began

\* the start-up run is in progress and a scheduled time has passed since it began
C19_Witness ==
    /\ InProgress(StartupRun)
    /\ \E t \in 0..MaxClock :
          runs[StartupRun].began < t /\ t < clock /\ t % DayLen = FireAt

\* the outcome without the wording of the log line
OutcomeKind(outcome) ==
    IF outcome \in {"Backup completed successfully",
                    "Scheduled backup completed successfully"}
    THEN "success" ELSE outcome

\* what a run left of a local file: nothing, or its content
LeftAt(path) == IF Exists(files, path) THEN <<ContentOf(files, path)>> ELSE <<>>

\* the results of the run's stage-level calls: snapshot, compress, upload, list
StageResults(r) == Take(runs[r].results, 4)

IsPrefix(s1, s2) == Len(s1) <= Len(s2) /\ SubSeq(s2, 1, Len(s1)) = s1

\* C20: after every stage and for either result the two job bodies go on in
\* the same way; a scheduled run and the start-up run that have ended, and
\* whose snapshot, compress, upload and list calls had the same results as
\* far as both made them, made the same stage calls with the same errors,
\* left the same local files, uploaded alike and ended with the same
\* outcome and warning; with the same delete results too they attempted as
\* many deletes with the same success.
C20_JobBodiesEquivalent ==
    /\ \A stage \in {StageOrder[i] : i \in 1..Len(StageOrder)} : \A err \in BOOLEAN :
          /\ scheduledJob(stage, err).pc = runBackup(stage, err).pc
          /\ scheduledJob(stage, err).warning = runBackup(stage, err).warning
          /\ OutcomeKind(scheduledJob(stage, err).outcome)
                = OutcomeKind(runBackup(stage, err).outcome)
    /\ \A r \in RunIds \ {StartupRun} :
          (/\ Returned(r) /\ Returned(StartupRun)
           /\ \/ IsPrefix(StageResults(r), StageResults(StartupRun))
              \/ IsPrefix(StageResults(StartupRun), StageResults(r))) =>
              /\ StageResults(r) = StageResults(StartupRun)
              /\ runs[r].calls = runs[StartupRun].calls
              /\ runs[r].errs = runs[StartupRun].errs
              /\ OutcomeKind(runs[r].outcome) = OutcomeKind(runs[StartupRun].outcome)
              /\ runs[r].warning = runs[StartupRun].warning
              /\ LeftAt(StagedOf(r)) = LeftAt(StagedOf(StartupRun))
              /\ LeftAt(CompressedOf(r)) = LeftAt(CompressedOf(StartupRun))
              /\ (runs[r].uploaded = {}) = (runs[StartupRun].uploaded = {})
              /\ runs[r].listed = runs[StartupRun].listed
              /\ runs[r].results = runs[StartupRun].results =>
                    /\ Len(runs[r].deletes) = Len(runs[StartupRun].deletes)
                    /\ \A j \in 1..Len(runs[r].deletes) :
                          runs[r].deletes[j].ok = runs[StartupRun].deletes[j].ok

\* the start-up run and a scheduled run both ended by a failed PutObject
C20_Witness ==
    \E r \in RunIds \ {StartupRun} :
        /\ Returned(r) /\ Returned(StartupRun)
        /\ runs[r].results = <<"ok", "ok", "putFailed">>
        /\ runs[StartupRun].results = <<"ok", "ok", "putFailed">>

\* the start-up run and a scheduled run both ended with success after a
\* pass that deleted
C20_WitnessSuccess ==
    \E r \in RunIds \ {StartupRun} :
        /\ Returned(r) /\ Returned(StartupRun)
        /\ runs[r].results = runs[StartupRun].results
        /\ Succeeded(r)
        /\ runs[r].deletes # <<>>

====
